---- MODULE Spec2Model ----
(***************************************************************************)
(* Model of the usage-projection engine of ClaudeMonitor                   *)
(* (src/src/overlay/projection_algorithms.py).                             *)
(*                                                                         *)
(* The source file holds both sides of an unresolved merge: the HEAD side  *)
(* (calculate_projections_for_metrics, timezone-aware clock) and the       *)
(* incoming side (calculate_projections, naive utcnow clock).  The         *)
(* variable `variant` says which side a build resolved to.                 *)
(*                                                                         *)
(* Numbers.  Python floats are modelled as exact fixed-point rationals:    *)
(*   - a usage value is an integer count of "units"; one percent is        *)
(*     Pct units, one tenth of a percent Tenth units, one hundredth        *)
(*     Centi units;                                                        *)
(*   - a rate is an integer count of hundredths of a percent per hour,     *)
(*     the grid round(x, 2) produces;                                      *)
(*   - time is counted in ticks of one sampling interval (5 minutes),      *)
(*     SamplesPerHour ticks to the hour.                                   *)
(* `data` is the document a caller holds in memory, `file` the content of  *)
(* data/usage-data.json, `call` the call in progress with its arguments    *)
(* and result.                                                             *)
(* Around the engine: `disk` is the temporary file next to the data file,  *)
(* `writer` the position of the process writing the data file (the shared  *)
(* atomic_write or the scraper's atomic_write_json), `overlay` the         *)
(* overlay's loaded data and file-watching attributes, `limiter` a         *)
(* RateLimiter with the coroutines waiting on it, `db` the tables of the   *)
(* scraper's SQLite store.                                                 *)
(* round(x, k) is modelled as round-half-even on the exact value.          *)
(***************************************************************************)
EXTENDS Integers, Sequences, FiniteSets, TLC

VARIABLES variant, now, data, file, call, disk, writer, overlay, limiter, db

\* the state around the projection engine: the directory of the data file,
\* the process writing it, the overlay reading it, the poller's rate
\* limiter and the scraper's SQLite store
periph == <<disk, writer, overlay, limiter, db>>

vars == <<variant, now, data, file, call, periph>>

(* ------------------------------ bounds --------------------------------- *)

\* sub-hundredth resolution of a usage value: Fine units (times
\* SamplesPerHour) make one hundredth of a percent
Fine == 10

\* longest history / input sequence enumerated
MaxLen == 3

\* last clock tick
MaxNow == 2

\* number of distinct documents written to the data file
MaxDocs == 3

\* RateLimiter(min_interval), in clock ticks (300 seconds by default)
min_interval == 2

\* most rows ever inserted into the scrapes table
MaxRows == 3

\* largest max_attempts enumerated (4 by default)
MaxAttempts == 3

\* polls of ensure_authenticated before it gives up (60 in the program)
MaxPolls == 3

\* largest sample count handed to determine_confidence on its own
MaxCount == 26

\* the retained length of historicalData: 2016 in the program
\* (MAX_HISTORICAL_POINTS, historical[-2016:]), scaled down here
MAX_HISTORICAL_POINTS == 3

(* --------------------------- program constants ------------------------- *)

\* "5-min intervals = 12 per hour"
SamplesPerHour == 12

\* default cap_limit = 100.0 (percent)
DefaultCapLimit == 100

\* default SMA window, and the trailing slice historical[-12:]
SmaWindow == 12

\* determine_confidence thresholds
HighConfidenceCount == 24

MediumConfidenceCount == 12

\* rate_per_day = rate_per_hour * 24
HoursPerDay == 24

\* RetryPolicy defaults: initial_delay, multiplier, max_delay
InitialDelay == 1

Multiplier == 2

MaxDelay == 60

(* ------------------------------- units --------------------------------- *)

Centi == Fine * SamplesPerHour

Tenth == 10 * Centi

Pct == 100 * Centi

(* ------------------------------ helpers -------------------------------- *)

None == [kind |-> "None"]

Returned(x) == [ret |-> x]

Raised(e) == [raised |-> e]

IsReturned(r) == "ret" \in DOMAIN r

IsRaised(r) == "raised" \in DOMAIN r

Abs(x) == IF x < 0 THEN -x ELSE x

Min(a, b) == IF a <= b THEN a ELSE b

\* Python's round(): the quotient n/d (d > 0) rounded to the nearest
\* integer, ties to the even one
RoundHalfEven(n, d) ==
    LET q == n \div d
        r == n - q * d
    IN  IF 2 * r < d THEN q
        ELSE IF 2 * r > d THEN q + 1
        ELSE IF q % 2 = 0 THEN q ELSE q + 1

\* the sign test `q < 0` on a quotient q = num/den kept as a fraction
FracNegative(q) == (q.num < 0 /\ q.den > 0) \/ (q.num > 0 /\ q.den < 0)

RECURSIVE SumSeq(_)
SumSeq(s) == IF s = <<>> THEN 0 ELSE s[1] + SumSeq(Tail(s))

\* Python's s[-k:] for k >= 1: the last k elements (all of s when k > Len(s))
LastK(s, k) ==
    IF k >= Len(s) THEN s ELSE SubSeq(s, Len(s) - k + 1, Len(s))

\* Python's s[k:] for k >= 0
DropK(s, k) ==
    IF k >= Len(s) THEN <<>> ELSE SubSeq(s, k + 1, Len(s))

\* dict.get(key, default)
Get(d, key, default) == IF key \in DOMAIN d THEN d[key] ELSE default

(* -------------------------- TrendEstimator ----------------------------- *)

\* calculate_sma averaging the leading window (data_points[:window]) instead
\* of the trailing one
calculate_sma_leading(data_points, window) ==
    LET w1 == IF Len(data_points) < window THEN Len(data_points) ELSE window
    IN  IF w1 = 0 THEN Returned([num |-> 0, den |-> 1])
        ELSE LET recent == IF w1 > 0 THEN SubSeq(data_points, 1, w1)
                           ELSE DropK(data_points, -w1)
             IN  IF Len(recent) = 0 THEN Raised("ZeroDivisionError")
                 ELSE Returned([num |-> SumSeq(recent), den |-> Len(recent)])

\* calculate_sma(data_points, window): the mean as the exact fraction
\* num/den of units; sum([])/len([]) raises ZeroDivisionError
calculate_sma(data_points, window) ==
    LET w1 == IF Len(data_points) < window THEN Len(data_points) ELSE window
    IN  IF w1 = 0 THEN Returned([num |-> 0, den |-> 1])
        ELSE LET recent == IF w1 > 0 THEN LastK(data_points, w1)
                           ELSE DropK(data_points, -w1)
             IN  IF Len(recent) = 0 THEN Raised("ZeroDivisionError")
                 ELSE Returned([num |-> SumSeq(recent), den |-> Len(recent)])

\* [point.get(cap_type, 0) for point in historical_data]
FieldValues(historical_data, cap_type) ==
    [i \in 1..Len(historical_data) |-> Get(historical_data[i], cap_type, 0)]

\* the least-squares slope, in units per sample, as the fraction num/den
\* over the 0-based index x = i - 1
OlsNum(ys) ==
    LET n == Len(ys)
        sum_x == SumSeq([i \in 1..n |-> i - 1])
        sum_y == SumSeq(ys)
        sum_xy == SumSeq([i \in 1..n |-> (i - 1) * ys[i]])
    IN  n * sum_xy - sum_x * sum_y

OlsDen(n) ==
    LET sum_x == SumSeq([i \in 1..n |-> i - 1])
        sum_x2 == SumSeq([i \in 1..n |-> (i - 1) * (i - 1)])
    IN  n * sum_x2 - sum_x * sum_x

\* calculate_trend with the two products of the slope's numerator exchanged
\* (sum_x * sum_y - n * sum_xy)
calculate_trend_swapped(historical_data, cap_type) ==
    IF Len(historical_data) < 2 THEN 0
    ELSE LET ys == FieldValues(historical_data, cap_type)
             denominator == OlsDen(Len(ys))
         IN  IF denominator = 0 THEN 0
             ELSE RoundHalfEven(SamplesPerHour * (-OlsNum(ys)), denominator * Centi)

\* calculate_trend without the conversion of the slope per sample to a rate
\* per hour (slope instead of slope * 12)
calculate_trend_per_sample(historical_data, cap_type) ==
    IF Len(historical_data) < 2 THEN 0
    ELSE LET ys == FieldValues(historical_data, cap_type)
             denominator == OlsDen(Len(ys))
         IN  IF denominator = 0 THEN 0
             ELSE RoundHalfEven(OlsNum(ys), denominator * Centi)

\* calculate_trend(historical_data, cap_type): hundredths of a percent per
\* hour, round(slope * 12, 2)
calculate_trend(historical_data, cap_type) ==
    IF Len(historical_data) < 2 THEN 0
    ELSE LET ys == FieldValues(historical_data, cap_type)
             denominator == OlsDen(Len(ys))
         IN  IF denominator = 0 THEN 0
             ELSE RoundHalfEven(SamplesPerHour * OlsNum(ys), denominator * Centi)

(* -------------------------- ProjectionEngine --------------------------- *)

\* the clock the build reads: datetime.now(timezone.utc) on the HEAD side,
\* datetime.utcnow() (naive) on the incoming side
NowForm(v) == IF v = "HEAD" THEN "aware" ELSE "naive"

\* an instant `num/den` hours after tick `base`, serialised with a Z suffix
Instant(base, num, den) ==
    [kind |-> "instant", base |-> base, num |-> num, den |-> den, form |-> "aware"]

\* estimate_time_to_cap with `remaining < 0` for `remaining <= 0`
estimate_time_to_cap_at_cap(current_usage, rate_per_hour, cap_limit, nw) ==
    IF rate_per_hour <= 0 THEN None
    ELSE LET remaining == cap_limit - current_usage
         IN  IF remaining < 0 THEN None
             ELSE Instant(nw, remaining, rate_per_hour * Centi)

\* estimate_time_to_cap with the quotient inverted (rate / remaining)
estimate_time_to_cap_inverted(current_usage, rate_per_hour, cap_limit, nw) ==
    IF rate_per_hour <= 0 THEN None
    ELSE LET remaining == cap_limit - current_usage
         IN  IF remaining <= 0 THEN None
             ELSE Instant(nw, rate_per_hour * Centi, remaining)

\* estimate_time_to_cap(current_usage, rate_per_hour, cap_limit) read at
\* clock tick nw; hours_to_cap = remaining / rate_per_hour
estimate_time_to_cap(current_usage, rate_per_hour, cap_limit, nw) ==
    IF rate_per_hour <= 0 THEN None
    ELSE LET remaining == cap_limit - current_usage
         IN  IF remaining <= 0 THEN None
             ELSE LET hours_to_cap == [num |-> remaining, den |-> rate_per_hour * Centi]
                  IN  IF FracNegative(hours_to_cap) THEN None
                      ELSE Instant(nw, hours_to_cap.num, hours_to_cap.den)

\* a target_time argument, as the JSON document can carry it: an ISO
\* timestamp with a timezone suffix ("aware": Z or +00:00) or without one
\* ("naive"), a string that is no timestamp, null, or a number
IsoTime(t, form) == [kind |-> "iso", t |-> t, form |-> form]

GarbageString == [kind |-> "garbage"]

NoneArg == [kind |-> "NoneType"]

IntArg == [kind |-> "int"]

\* target_dt = fromisoformat(...); target_dt - now: the outcome of parsing
\* the target and subtracting the clock, before any arithmetic
TargetOutcome(target_time, v) ==
    IF target_time.kind \in {"NoneType", "int"} THEN "AttributeError"
    ELSE IF target_time.kind = "garbage" THEN "ValueError"
    ELSE IF target_time.form # NowForm(v) THEN "TypeError"
    ELSE "ok"

\* calculate_projection_at_time without the min(projected, cap_limit)
calculate_projection_at_time_unclamped(current_usage, rate_per_hour, target_time, cap_limit, nw, v) ==
    IF TargetOutcome(target_time, v) \in {"ValueError", "AttributeError"}
    THEN Returned(current_usage)
    ELSE IF TargetOutcome(target_time, v) # "ok"
    THEN Raised(TargetOutcome(target_time, v))
    ELSE LET ticks_until_target == target_time.t - nw
         IN  IF ticks_until_target < 0 THEN Returned(current_usage)
             ELSE Returned(current_usage
                    + (rate_per_hour * Centi * ticks_until_target) \div SamplesPerHour)

\* calculate_projection_at_time without the `hours_until_target < 0` branch
calculate_projection_at_time_retro(current_usage, rate_per_hour, target_time, cap_limit, nw, v) ==
    IF TargetOutcome(target_time, v) \in {"ValueError", "AttributeError"}
    THEN Returned(current_usage)
    ELSE IF TargetOutcome(target_time, v) # "ok"
    THEN Raised(TargetOutcome(target_time, v))
    ELSE LET ticks_until_target == target_time.t - nw
             projected == current_usage
                    + (rate_per_hour * Centi * ticks_until_target) \div SamplesPerHour
         IN  Returned(Min(projected, cap_limit))

\* calculate_projection_at_time(current_usage, rate_per_hour, target_time,
\* cap_limit) read at clock tick nw under build v
calculate_projection_at_time(current_usage, rate_per_hour, target_time, cap_limit, nw, v) ==
    IF TargetOutcome(target_time, v) \in {"ValueError", "AttributeError"}
    THEN Returned(current_usage)            \* except (ValueError, AttributeError)
    ELSE IF TargetOutcome(target_time, v) # "ok"
    THEN Raised(TargetOutcome(target_time, v))
    ELSE LET ticks_until_target == target_time.t - nw
         IN  IF ticks_until_target < 0 THEN Returned(current_usage)
             ELSE LET projected == current_usage
                        + (rate_per_hour * Centi * ticks_until_target) \div SamplesPerHour
                  IN  Returned(Min(projected, cap_limit))

\* determine_confidence with the thresholds exclusive (> for >=)
determine_confidence_strict(data_point_count) ==
    IF data_point_count > HighConfidenceCount THEN "high"
    ELSE IF data_point_count > MediumConfidenceCount THEN "medium"
    ELSE "low"

\* determine_confidence(data_point_count)
determine_confidence(data_point_count) ==
    IF data_point_count >= HighConfidenceCount THEN "high"
    ELSE IF data_point_count >= MediumConfidenceCount THEN "medium"
    ELSE "low"

(* ----------------------- the projection builders ----------------------- *)

\* The caps, in the order both loops visit them.  The HEAD side names them
\* fourHourCap / weekCap / opusWeekCap under data['metrics'] and reads the
\* history fields fourHourUsed / weekUsed / opusWeekUsed; the incoming side
\* names cap and history field alike fourHour / oneWeek / opusOneWeek under
\* data['currentState'] and reads 'usagePercent' for 'percentage'.  The
\* model writes both schemas with the HEAD names.
CapNames == <<"fourHourCap", "weekCap", "opusWeekCap">>

Caps == {CapNames[i] : i \in 1..Len(CapNames)}

cap_mappings ==
    [fourHourCap |-> "fourHourUsed", weekCap |-> "weekUsed", opusWeekCap |-> "opusWeekUsed"]

\* 'week' in cap_name.lower()  /  'Week' in cap_type
IsWeekCap(cap_name) == cap_name \in {"weekCap", "opusWeekCap"}

\* round(sma, 1), in tenths of a percent
RoundedSma(historical, field) ==
    LET recent_values == FieldValues(LastK(historical, SmaWindow), field)
        sma == calculate_sma(recent_values, SmaWindow).ret
    IN  RoundHalfEven(sma.num, sma.den * Tenth)

\* DailyRate without the test on the cap's name: every cap gets a daily rate
DailyRate_every_cap(cap_name, rate_per_hour) ==
    [averageRatePerDay |-> rate_per_hour * HoursPerDay]

\* averageRatePerDay: round(rate_per_hour * 24, 2) for the week-based caps
DailyRate(cap_name, rate_per_hour) ==
    IF IsWeekCap(cap_name)
    THEN [averageRatePerDay |-> rate_per_hour * HoursPerDay]
    ELSE <<>>

\* one iteration of the HEAD loop: the projection of one cap
HeadCapProjection(d, cap_name, nw) ==
    LET cap_data == Get(d.metrics, cap_name, <<>>)
        current == Get(cap_data, "percentage", 0)
        rate_per_hour == calculate_trend(d.historicalData, cap_mappings[cap_name])
    IN  [averageRatePerHour |-> rate_per_hour,
         estimatedTimeToLimit |->
             estimate_time_to_cap(current, rate_per_hour, DefaultCapLimit * Pct, nw),
         confidence |-> determine_confidence(Len(d.historicalData)),
         sma |-> RoundedSma(d.historicalData, cap_mappings[cap_name])]
        @@ DailyRate(cap_name, rate_per_hour)

\* calculate_projections_for_metrics(data), the HEAD side
calculate_projections_for_metrics(d, nw) ==
    IF Len(d.historicalData) < 2 THEN Returned(None)
    ELSE IF DOMAIN d.metrics = {} THEN Returned(None)
    ELSE Returned([cap_name \in Caps |-> HeadCapProjection(d, cap_name, nw)])

\* the caps the incoming loop does not skip: `if reset_time is None: continue`
CapsWithReset(d) ==
    {cap_type \in Caps :
        Get(Get(d.metrics, cap_type, <<>>), "resetTime", None) # None}

\* projected_at_reset of one cap, as calculate_projection_at_time returns
\* or raises it
ProjectedAtReset(d, cap_type, nw, v) ==
    LET cap_data == Get(d.metrics, cap_type, <<>>)
    IN  calculate_projection_at_time(
            Get(cap_data, "percentage", 0),
            calculate_trend(d.historicalData, cap_mappings[cap_type]),
            cap_data["resetTime"], DefaultCapLimit * Pct, nw, v)

\* one iteration of the incoming loop that was not skipped and did not raise
TheirsCapProjection(d, cap_type, nw, v) ==
    LET cap_data == Get(d.metrics, cap_type, <<>>)
        current == Get(cap_data, "percentage", 0)
        rate_per_hour == calculate_trend(d.historicalData, cap_mappings[cap_type])
    IN  [averageRatePerHour |-> rate_per_hour,
         projectedUsageAtReset |->
             RoundHalfEven(ProjectedAtReset(d, cap_type, nw, v).ret, Tenth),
         estimatedTimeToLimit |->
             estimate_time_to_cap(current, rate_per_hour, DefaultCapLimit * Pct, nw),
         confidence |-> determine_confidence(Len(d.historicalData)),
         sma |-> RoundedSma(d.historicalData, cap_mappings[cap_type])]
        @@ DailyRate(cap_type, rate_per_hour)

\* calculate_projections(data), the incoming side; an exception of
\* calculate_projection_at_time leaves the loop and the function
calculate_projections(d, nw, v) ==
    IF Len(d.historicalData) < 2 THEN Returned(None)
    ELSE IF DOMAIN d.metrics = {} THEN Returned(None)
    ELSE IF \E c \in CapsWithReset(d) : IsRaised(ProjectedAtReset(d, c, nw, v))
    THEN Raised("TypeError")
    ELSE Returned([cap_type \in CapsWithReset(d) |->
                        TheirsCapProjection(d, cap_type, nw, v)])

\* the projection builder of build v
BuildProjections(d, nw, v) ==
    IF v = "HEAD" THEN calculate_projections_for_metrics(d, nw)
    ELSE calculate_projections(d, nw, v)

\* `if projections:` -- neither None nor an empty dict
Truthy(projections) == projections # None /\ DOMAIN projections # {}

\* AttachProjection assigning the projection to the cap itself
\* (data['metrics'][cap_name] = projection)
AttachProjection_replacing(cap_data, projection, v) == projection

\* the HEAD side stores the projection under the cap's 'projections' key;
\* the incoming side merges its fields into the cap with dict.update
AttachProjection(cap_data, projection, v) ==
    IF v = "HEAD" THEN ("projections" :> projection) @@ cap_data
    ELSE projection @@ cap_data

\* integrate_projections_into_data(data): the document with the projections
\* attached, or the exception of the builder
integrate_projections_into_data(d, nw, v) ==
    LET projections == BuildProjections(d, nw, v)
    IN  IF IsRaised(projections) THEN projections
        ELSE IF ~Truthy(projections.ret) THEN Returned(d)
        ELSE Returned([d EXCEPT !.metrics =
                [cap_name \in DOMAIN d.metrics |->
                    IF cap_name \in DOMAIN projections.ret
                    THEN AttachProjection(d.metrics[cap_name],
                                          projections.ret[cap_name], v)
                    ELSE d.metrics[cap_name]]])

(* ------------------- inputs of the function-level checks --------------- *)

\* the history field the pure calls read
Field == "fourHourUsed"

\* usage values on the fine grid and on the whole-percent grid
TrendValues == {0, 1, 2, 22 * Pct, 23 * Pct, 24 * Pct}

\* a history point: a dict that carries the field, or one that lacks it
TrendPoints == {[otherField |-> 10 * Pct]} \cup {(Field :> y) : y \in TrendValues}

TrendInputs == UNION {[1..n -> TrendPoints] : n \in 0..MaxLen}

CurrentValues == {0, 50 * Pct, 99 * Pct + 9 * Tenth, 100 * Pct, 105 * Pct}

\* rates in hundredths of a percent per hour
RateValues == {-1000, -1, 0, 1, 1000}

CapLimits == {50 * Pct, DefaultCapLimit * Pct}

TargetTimes ==
    {IsoTime(t, f) : t \in 0..(MaxNow + 12), f \in {"aware", "naive"}}
        \cup {GarbageString, NoneArg, IntArg}

\* the usage percentages calculate_sma averages
SmaValues == {10 * Pct, 20 * Pct, 45 * Pct}

SmaInputs == UNION {[1..n -> SmaValues] : n \in 0..MaxLen}

\* the window argument: any integer, the default among them
SmaWindows == (-2..(MaxLen + 1)) \cup {SmaWindow}

(* ------------------------------- state --------------------------------- *)

NoCall == [fn |-> "none"]

EmptyData == [historicalData |-> <<>>, metrics |-> <<>>]

\* DATA_FILE.exists() is false
NoFile == [kind |-> "missing"]

\* no temporary file lies next to the data file
NoTemp == [temp |-> NoFile]

\* no write of the data file is in progress
Idle == [pc |-> "idle"]

\* UsageOverlay.__init__: data = {}, last_modified = last_file_size = None
NotLoaded ==
    [pc |-> "idle", data |-> None, last_modified |-> None,
     last_file_size |-> None]

\* the coroutines sharing one RateLimiter
Coroutines == {"a", "b"}

\* RateLimiter.__init__: last_request = None.  `co` is the position of each
\* coroutine in wait_if_needed, `returns` the clock readings of the last
\* two returns, `reset_between` whether reset() ran between them and
\* `reset_since` whether it ran since the last.
NewRateLimiter ==
    [last_request |-> None,
     co |-> [c \in Coroutines |-> [pc |-> "idle"]],
     returns |-> <<>>,
     reset_between |-> FALSE,
     reset_since |-> FALSE]

\* Storage.__init__ on a new database: the tables scrapes and components
\* are empty
EmptyStorage == [scrapes |-> {}, components |-> {}, lastrowid |-> 0]

Init ==
    /\ variant \in {"HEAD", "theirs"}
    /\ now = 0
    /\ data = EmptyData
    /\ file = NoFile
    /\ call = NoCall
    /\ disk = NoTemp
    /\ writer = Idle
    /\ overlay = NotLoaded
    /\ limiter = NewRateLimiter
    /\ db = EmptyStorage

\* the wall clock advances between calls
Tick ==
    /\ call = NoCall
    /\ now < MaxNow
    /\ now' = now + 1
    /\ UNCHANGED <<periph, variant, data, file, call>>

CallTrend ==
    /\ call = NoCall
    /\ \E h \in TrendInputs :
           call' = [fn |-> "calculate_trend", historical_data |-> h,
                    out |-> calculate_trend(h, Field)]
    /\ UNCHANGED <<periph, variant, now, data, file>>

CallSma ==
    /\ call = NoCall
    /\ \E p \in SmaInputs, w \in SmaWindows :
           call' = [fn |-> "calculate_sma", data_points |-> p, window |-> w,
                    out |-> calculate_sma(p, w)]
    /\ UNCHANGED <<periph, variant, now, data, file>>

CallEstimate ==
    /\ call = NoCall
    /\ \E c \in CurrentValues, r \in RateValues, l \in CapLimits :
           call' = [fn |-> "estimate_time_to_cap", current_usage |-> c,
                    rate_per_hour |-> r, cap_limit |-> l, at |-> now,
                    out |-> estimate_time_to_cap(c, r, l, now)]
    /\ UNCHANGED <<periph, variant, now, data, file>>

CallProjectionAtTime ==
    /\ call = NoCall
    /\ \E c \in CurrentValues, r \in RateValues, t \in TargetTimes, l \in CapLimits :
           call' = [fn |-> "calculate_projection_at_time", current_usage |-> c,
                    rate_per_hour |-> r, target_time |-> t, cap_limit |-> l, at |-> now,
                    out |-> calculate_projection_at_time(c, r, t, l, now, variant)]
    /\ UNCHANGED <<periph, variant, now, data, file>>

CallConfidence ==
    /\ call = NoCall
    /\ \E n \in 0..MaxCount :
           call' = [fn |-> "determine_confidence", data_point_count |-> n,
                    out |-> determine_confidence(n)]
    /\ UNCHANGED <<periph, variant, now, data, file>>

\* the synchronous call is over; its result is dropped
Return ==
    /\ call # NoCall
    /\ call' = NoCall
    /\ UNCHANGED <<periph, variant, now, data, file>>

(* ------------------- the document and its projections ----------------- *)

\* a history point of the data file
HistoryPoint(a, b, c) == [fourHourUsed |-> a, weekUsed |-> b, opusWeekUsed |-> c]

HistoryPoints ==
    {HistoryPoint(22 * Pct, 30 * Pct, 20 * Pct),
     HistoryPoint(23 * Pct, 29 * Pct, 20 * Pct),
     HistoryPoint(24 * Pct, 28 * Pct, 20 * Pct)}

\* a history of n samples: the 4-hour count rises by a tenth per sample, the
\* weekly count is flat, the Opus count falls
RampHistory(n) ==
    [i \in 1..n |-> HistoryPoint(i * Tenth, 3 * Pct, (n - i) * Tenth)]

\* one to two hours of samples, around the two confidence thresholds
LongHistories ==
    {RampHistory(n) : n \in {MediumConfidenceCount - 1, MediumConfidenceCount,
                              HighConfidenceCount - 1, HighConfidenceCount}}

Histories == UNION {[1..n -> HistoryPoints] : n \in 0..MaxLen} \cup LongHistories

\* a reset three hours after the first clock reading
FarTick == 3 * SamplesPerHour

\* the resetTime of a cap: missing, or a timestamp with or without a
\* timezone suffix, or a string that is no timestamp
ResetChoices ==
    {None, IsoTime(FarTick, "aware"), IsoTime(FarTick, "naive"),
     IsoTime(1, "aware"), GarbageString}

WeeklyResetChoices == {None, IsoTime(FarTick, "aware"), IsoTime(FarTick, "naive")}

\* a cap as scraped: {"used": int(round(val)), "limit": 100, "percentage":
\* val}, with the resetTime when the page gave one
CapState(percentage, reset) ==
    LET scraped == [used |-> RoundHalfEven(percentage, Pct),
                    limit |-> DefaultCapLimit,
                    percentage |-> percentage]
    IN  IF reset = None THEN scraped
        ELSE ("resetTime" :> reset) @@ scraped

\* the caps as scraped: the short-window cap and the two weekly caps
MetricsChoices ==
    {<<>>, [fourHourCap |-> CapState(24 * Pct, None)]}
        \cup {[fourHourCap |-> CapState(24 * Pct, r1),
               weekCap |-> CapState(28 * Pct, r2),
               opusWeekCap |-> CapState(20 * Pct, r2)] :
                  r1 \in ResetChoices, r2 \in WeeklyResetChoices}

\* "lastUpdated": now_iso, the Z-suffixed instant of the scrape
LastUpdated == IsoTime(0, "aware")

Documents ==
    {[lastUpdated |-> LastUpdated, historicalData |-> h, metrics |-> m] :
        h \in Histories, m \in MetricsChoices}

\* the projection of a cap as an earlier cycle of build v left it in the
\* data file
StaleProjection(cap_name, v) ==
    [averageRatePerHour |-> 4242,
     estimatedTimeToLimit |-> Instant(0, 1, 1),
     confidence |-> "high",
     sma |-> 999]
        @@ DailyRate(cap_name, 4242)
        @@ (IF v = "HEAD" THEN <<>> ELSE [projectedUsageAtReset |-> 777])

\* the document d as read back from the data file, every cap carrying the
\* projection of an earlier cycle
Annotated(d, v) ==
    [d EXCEPT !.metrics =
        [c \in DOMAIN d.metrics |->
            AttachProjection(d.metrics[c], StaleProjection(c, v), v)]]

\* documents of up to two samples that carry projections already
AnnotatedDocuments(v) ==
    {Annotated(d, v) : d \in {x \in Documents : /\ Len(x.historicalData) <= 2
                                                  /\ DOMAIN x.metrics # {}}}

\* the projection builder called on a document handed in as its argument
CallProjectionsOf ==
    /\ call = NoCall
    /\ \E d \in Documents :
           call' = [fn |-> "calculate_projections_of", data |-> d, at |-> now,
                    out |-> BuildProjections(d, now, variant)]
    /\ UNCHANGED <<periph, variant, now, data, file>>

\* two-sample histories that agree on one cap's values and differ on
\* another's
PairHistories ==
    {<<HistoryPoint(22 * Pct, 30 * Pct, 20 * Pct), HistoryPoint(23 * Pct, 29 * Pct, 20 * Pct)>>,
     <<HistoryPoint(24 * Pct, 30 * Pct, 20 * Pct), HistoryPoint(22 * Pct, 29 * Pct, 20 * Pct)>>,
     <<HistoryPoint(22 * Pct, 30 * Pct, 20 * Pct), HistoryPoint(23 * Pct, 28 * Pct, 20 * Pct)>>}

\* documents with all three caps, the 4-hour cap and the weekly caps each
\* without resetTime or with one in either timezone form
PairDocuments ==
    {[lastUpdated |-> LastUpdated, historicalData |-> h,
      metrics |-> [fourHourCap |-> CapState(p, r1),
                   weekCap |-> CapState(28 * Pct, r2),
                   opusWeekCap |-> CapState(20 * Pct, r2)]] :
        h \in PairHistories, p \in {24 * Pct}, r1 \in WeeklyResetChoices,
        r2 \in WeeklyResetChoices}

\* the projection builder called on two documents at the same clock reading
CallProjectionsPair ==
    /\ call = NoCall
    /\ \E d1 \in PairDocuments, d2 \in PairDocuments :
           call' = [fn |-> "calculate_projections_pair", at |-> now,
                    data |-> d1, other |-> d2,
                    out |-> BuildProjections(d1, now, variant),
                    out_other |-> BuildProjections(d2, now, variant)]
    /\ UNCHANGED <<periph, variant, now, data, file>>

NextPure ==
    \/ Tick
    \/ CallTrend
    \/ CallSma
    \/ CallEstimate
    \/ CallProjectionAtTime
    \/ CallConfidence
    \/ CallProjectionsOf
    \/ CallProjectionsPair
    \/ Return

SpecPure == Init /\ [][NextPure]_vars

\* the document is read from the data file
LoadData ==
    /\ call = NoCall
    /\ data = EmptyData
    /\ data' \in Documents \cup AnnotatedDocuments(variant)
    /\ UNCHANGED <<periph, variant, now, file, call>>

\* the projections of the document are computed
CallProjections ==
    /\ call = NoCall
    /\ call' = [fn |-> "calculate_projections", at |-> now,
                out |-> BuildProjections(data, now, variant)]
    /\ UNCHANGED <<periph, variant, now, data, file>>

\* the projections are computed and attached to the document in place
CallIntegrate ==
    /\ call = NoCall
    /\ LET r == integrate_projections_into_data(data, now, variant)
       IN  /\ call' = [fn |-> "integrate_projections_into_data", at |-> now,
                       before |-> data,
                       out |-> IF IsRaised(r) THEN r ELSE Returned("data")]
           /\ data' = IF IsRaised(r) THEN data ELSE r.ret
    /\ UNCHANGED <<periph, variant, now, file>>

NextDoc == Tick \/ LoadData \/ CallProjections \/ CallIntegrate \/ Return

SpecDoc == Init /\ [][NextDoc]_vars

(* --------------- the polling cycle and the manual update --------------- *)

\* the three caps as extract_metrics returns them: used = int(round(val)),
\* limit = 100, percentage = val, no resetTime
ScrapedMetrics ==
    {[fourHourCap |-> CapState(p, None),
      weekCap |-> CapState(28 * Pct, None),
      opusWeekCap |-> CapState(20 * Pct, None)] : p \in {24 * Pct}}

\* a cap as typed in by the user: used of limit, percentage =
\* round(used / limit * 100, 1)
EnteredCap(used, limit) ==
    [used |-> used, limit |-> limit,
     percentage |-> RoundHalfEven(used * 1000, limit) * Tenth]

\* the numbers a user reads off the page, with the default limits
EnteredMetrics ==
    {[fourHourCap |-> EnteredCap(12, 50),
      weekCap |-> EnteredCap(280, 1000),
      opusWeekCap |-> EnteredCap(100, 500)]}

\* hd_point: the timestamp and the raw used numbers of the three caps
hd_point(metrics, nw) ==
    [timestamp |-> nw,
     fourHourUsed |-> metrics["fourHourCap"]["used"] * Pct,
     weekUsed |-> metrics["weekCap"]["used"] * Pct,
     opusWeekUsed |-> metrics["opusWeekCap"]["used"] * Pct]

\* the history with the new point kept and the newest points dropped
\* (historical[:2016])
AppendAndTrim_keep_oldest(historical, point) ==
    SubSeq(Append(historical, point), 1,
           Min(Len(historical) + 1, MAX_HISTORICAL_POINTS))

\* historical.append(hd_point) without the trim
AppendAndTrim_untrimmed(historical, point) == Append(historical, point)

\* historical.append(hd_point); historical = historical[-2016:]
AppendAndTrim(historical, point) ==
    LastK(Append(historical, point), MAX_HISTORICAL_POINTS)

\* existing.get("historicalData", []) of the data file, [] without a file
ExistingHistory(f) ==
    IF f = NoFile THEN <<>> ELSE Get(f, "historicalData", <<>>)

\* the document a cycle builds from the metrics and the data file
BuildDocument(metrics, f, nw) ==
    [lastUpdated |-> IsoTime(nw, "aware"),
     metrics |-> metrics,
     historicalData |-> AppendAndTrim(ExistingHistory(f), hd_point(metrics, nw))]

\* scrape_once and the write of run_loop: the document is built, the
\* projections are integrated (a failure of the integration is printed and
\* the document kept without them) and the file is replaced
ScrapeCycle ==
    /\ call = NoCall
    /\ \E metrics \in ScrapedMetrics :
           LET d == BuildDocument(metrics, file, now)
               r == integrate_projections_into_data(d, now, variant)
           IN  /\ file' = IF IsRaised(r) THEN d ELSE r.ret
               /\ call' = [fn |-> "scrape_once", at |-> now, before |-> file,
                           saved |-> TRUE, out |-> Returned(file')]
    /\ UNCHANGED <<periph, variant, now, data>>

\* scrape_once when no metrics could be extracted: None, nothing is written
ScrapeFails ==
    /\ call = NoCall
    /\ call' = [fn |-> "scrape_once", at |-> now, before |-> file,
                saved |-> FALSE, out |-> Returned(None)]
    /\ UNCHANGED <<periph, variant, now, data, file>>

\* manual_update.main: the entered numbers become the document; it is
\* written when the user confirms, and an exception of the integration
\* ends the program before the write
ManualUpdate ==
    /\ call = NoCall
    /\ \E metrics \in EnteredMetrics, confirm \in BOOLEAN :
           LET d == BuildDocument(metrics, file, now)
               r == integrate_projections_into_data(d, now, variant)
               saved == IsReturned(r) /\ confirm
           IN  /\ file' = IF saved THEN r.ret ELSE file
               /\ call' = [fn |-> "manual_update", at |-> now, before |-> file,
                           saved |-> saved,
                           out |-> IF IsRaised(r) THEN r ELSE Returned(None)]
    /\ UNCHANGED <<periph, variant, now, data>>

\* DataSchema.trim_historical_data(data)
trim_historical_data(d) ==
    IF Len(Get(d, "historicalData", <<>>)) > MAX_HISTORICAL_POINTS
    THEN [d EXCEPT !.historicalData = LastK(@, MAX_HISTORICAL_POINTS)]
    ELSE d

\* documents of up to two samples more than the retained length, and one
\* without a historicalData key
TrimInputs ==
    {[lastUpdated |-> LastUpdated]}
        \cup {[lastUpdated |-> LastUpdated, historicalData |-> RampHistory(n)] :
                  n \in 0..(MAX_HISTORICAL_POINTS + 2)}

CallTrim ==
    /\ call = NoCall
    /\ \E d \in TrimInputs :
           call' = [fn |-> "trim_historical_data", data |-> d,
                    out |-> trim_historical_data(d)]
    /\ UNCHANGED <<periph, variant, now, data, file>>

\* AtomicWriter.merge_with_existing(filepath, new_data) with
\* preserve_historical: the history of the file replaces that of new_data
\* and metadata.lastUpdate is set; without a file new_data is returned
merge_with_existing(f, new_data, nw) ==
    IF f = NoFile THEN new_data
    ELSE LET preserved ==
                 IF "historicalData" \in DOMAIN f
                 THEN ("historicalData" :> f.historicalData) @@ new_data
                 ELSE new_data
         IN  ("metadata" :> [lastUpdate |-> IsoTime(nw, "aware")]) @@ preserved

\* a freshly scraped document that holds its own sample only
FreshDocuments ==
    {[lastUpdated |-> LastUpdated, metrics |-> m,
      historicalData |-> <<hd_point(m, 0)>>] : m \in ScrapedMetrics}

CallMergeWithExisting ==
    /\ call = NoCall
    /\ \E d \in FreshDocuments :
           call' = [fn |-> "merge_with_existing", new_data |-> d, at |-> now,
                    out |-> merge_with_existing(file, d, now)]
    /\ UNCHANGED <<periph, variant, now, data, file>>

NextCycle ==
    \/ Tick
    \/ ScrapeCycle
    \/ ScrapeFails
    \/ ManualUpdate
    \/ CallTrim
    \/ CallMergeWithExisting
    \/ Return

SpecCycle == Init /\ [][NextCycle]_vars

(* ----------------------- writing the data file ------------------------- *)

\* The documents written, by identity; json.dump writes the text of
\* document d in TextLen(d) chunks, so documents 1 and 3 have texts of the
\* same size.
DocIds == 1..MaxDocs

TextLen(d) == 2 + (d % 2)

\* a file holding the first k chunks of the text of document d, last
\* written at clock reading t
FileOf(d, k, t) == [kind |-> "file", doc |-> d, chunks |-> k, mtime |-> t]

Exists(f) == f.kind = "file"

IsComplete(f) == Exists(f) /\ f.chunks = TextLen(f.doc)

\* json.load on an open file
json_load(f) ==
    IF IsComplete(f) THEN Returned(f.doc) ELSE Raised("JSONDecodeError")

\* os.name
Platforms == {"posix", "nt"}

\* what the body of the with-block may raise: a subclass of Exception, or
\* an exception outside it
BodyExceptions == {"Exception", "KeyboardInterrupt"}

\* atomic_write up to the yield: the overwrite check and mkstemp
AwBegin ==
    /\ writer = Idle
    /\ now < MaxNow
    /\ \E d \in DocIds, overwrite \in BOOLEAN, os_name \in Platforms :
           IF Exists(file) /\ ~overwrite
           THEN /\ writer' = [pc |-> "done", via |-> "atomic_write",
                              doc |-> d, os_name |-> os_name, before |-> file,
                              raised_in |-> "check",
                              out |-> Raised("FileExistsError")]
                /\ disk' = disk
           ELSE /\ writer' = [pc |-> "body", via |-> "atomic_write",
                              doc |-> d, os_name |-> os_name, before |-> file]
                /\ disk' = [disk EXCEPT !.temp = FileOf(d, 0, now)]
    /\ UNCHANGED <<variant, now, data, file, call, overlay, limiter, db>>

\* the scraper's atomic_write_json up to json.dump: open(tmp, "w")
SwBegin ==
    /\ writer = Idle
    /\ now < MaxNow
    /\ \E d \in DocIds, os_name \in Platforms :
           /\ writer' = [pc |-> "body", via |-> "os_replace", doc |-> d,
                         os_name |-> os_name, before |-> file]
           /\ disk' = [disk EXCEPT !.temp = FileOf(d, 0, now)]
    /\ UNCHANGED <<variant, now, data, file, call, overlay, limiter, db>>

\* json.dump writes the next chunk of the text to the temporary file
WriteChunk ==
    /\ writer.pc = "body"
    /\ disk.temp.chunks < TextLen(writer.doc)
    /\ disk' = [disk EXCEPT !.temp = FileOf(writer.doc, @.chunks + 1, now)]
    /\ UNCHANGED <<variant, now, data, file, call, writer, overlay, limiter, db>>

\* the body raises: atomic_write's `except Exception` removes the
\* temporary file and re-raises; an exception outside Exception passes the
\* clause by.  The scraper's writer has no handler.
BodyRaises ==
    /\ writer.pc = "body"
    /\ \E e \in BodyExceptions :
           /\ writer' = [writer EXCEPT !.pc = "done"] @@
                         [raised_in |-> "body", out |-> Raised(e)]
           /\ disk' = IF writer.via = "atomic_write" /\ e = "Exception"
                      THEN [disk EXCEPT !.temp = NoFile]
                      ELSE disk
    /\ UNCHANGED <<variant, now, data, file, call, overlay, limiter, db>>

\* the body ends and the temporary file is closed
BodyDone ==
    /\ writer.pc = "body"
    /\ disk.temp.chunks = TextLen(writer.doc)
    /\ writer' = [writer EXCEPT !.pc = "written"]
    /\ UNCHANGED <<variant, now, data, file, call, disk, overlay, limiter, db>>

\* atomic_write: `if os.name == 'nt' and filepath.exists(): os.remove(filepath)`
AwRemoveTarget ==
    /\ writer.pc = "written"
    /\ writer.via = "atomic_write"
    /\ writer.os_name = "nt" /\ Exists(file)
    /\ file' = NoFile
    /\ writer' = [writer EXCEPT !.pc = "removed"]
    /\ UNCHANGED <<variant, now, data, call, disk, overlay, limiter, db>>

\* the writer is past the platform branch
ReadyToMove ==
    \/ writer.pc = "removed"
    \/ /\ writer.pc = "written"
       /\ writer.via = "atomic_write"
       /\ ~(writer.os_name = "nt" /\ Exists(file))

\* atomic_write: shutil.move(temp_path, filepath) renames the temporary
\* file onto the target
AwMove ==
    /\ ReadyToMove
    /\ file' = disk.temp
    /\ disk' = [disk EXCEPT !.temp = NoFile]
    /\ writer' = [writer EXCEPT !.pc = "done"] @@ [out |-> Returned(None)]
    /\ UNCHANGED <<variant, now, data, call, overlay, limiter, db>>

\* atomic_write: shutil.move raises OSError; the except clause removes the
\* temporary file and re-raises
AwMoveFails ==
    /\ ReadyToMove
    /\ disk' = [disk EXCEPT !.temp = NoFile]
    /\ writer' = [writer EXCEPT !.pc = "done"] @@
                  [raised_in |-> "move", out |-> Raised("OSError")]
    /\ UNCHANGED <<variant, now, data, file, call, overlay, limiter, db>>

\* the scraper's writer: os.replace(tmp, path)
SwReplace ==
    /\ writer.pc = "written"
    /\ writer.via = "os_replace"
    /\ file' = disk.temp
    /\ disk' = [disk EXCEPT !.temp = NoFile]
    /\ writer' = [writer EXCEPT !.pc = "done"] @@ [out |-> Returned(None)]
    /\ UNCHANGED <<variant, now, data, call, overlay, limiter, db>>

\* the writing process is interrupted (killed) where it stands
Kill ==
    /\ writer.pc \in {"body", "written", "removed"}
    /\ writer' = [writer EXCEPT !.pc = "killed"]
    /\ UNCHANGED <<variant, now, data, file, call, disk, overlay, limiter, db>>

\* the call is over, or the process is gone: the next write may start
WriterReturn ==
    /\ writer.pc \in {"done", "killed"}
    /\ writer' = Idle
    /\ UNCHANGED <<variant, now, data, file, call, disk, overlay, limiter, db>>

\* a value of an Optional attribute that is not None
Some(x) == [some |-> x]

\* check_and_reload up to the call of reload_data: exists(), os.stat, the
\* comparison with the values of the last poll
PollStat ==
    /\ overlay.pc = "idle"
    /\ IF ~Exists(file) THEN overlay' = overlay
       ELSE IF /\ overlay.last_modified # None
               /\ overlay.last_modified = Some(file.mtime)
               /\ overlay.last_file_size = Some(file.chunks)
            THEN overlay' = overlay
            ELSE overlay' = [overlay EXCEPT !.pc = "reload",
                                !.last_modified = Some(file.mtime),
                                !.last_file_size = Some(file.chunks)]
    /\ UNCHANGED <<variant, now, data, file, call, disk, writer, limiter, db>>

\* reload_data: open and json.load; on JSONDecodeError or any other
\* exception the previous data is kept
PollReload ==
    /\ overlay.pc = "reload"
    /\ overlay' = [overlay EXCEPT !.pc = "idle",
                       !.data = IF Exists(file) /\ IsReturned(json_load(file))
                                THEN Some(json_load(file).ret)
                                ELSE @]
    /\ UNCHANGED <<variant, now, data, file, call, disk, writer, limiter, db>>

NextWrite ==
    \/ Tick
    \/ AwBegin
    \/ SwBegin
    \/ WriteChunk
    \/ BodyRaises
    \/ BodyDone
    \/ AwRemoveTarget
    \/ AwMove
    \/ AwMoveFails
    \/ SwReplace
    \/ Kill
    \/ WriterReturn
    \/ PollStat
    \/ PollReload

SpecWrite == Init /\ [][NextWrite]_vars

(* --------------------------- RateLimiter ------------------------------- *)

\* wait_if_needed returns at clock reading t
RecordReturn(l, t) ==
    [l EXCEPT !.returns = LastK(Append(@, t), 2),
              !.reset_between = l.reset_since,
              !.reset_since = FALSE]

\* wait_if_needed up to its await: with a last request less than
\* min_interval ago the coroutine sleeps for the rest of the interval,
\* otherwise it stamps last_request and returns
WaitIfNeeded(c) ==
    /\ limiter.co[c].pc = "idle"
    /\ IF /\ limiter.last_request # None
          /\ now - limiter.last_request.some < min_interval
       THEN limiter' =
                [limiter EXCEPT !.co[c] =
                    [pc |-> "sleeping",
                     wake |-> limiter.last_request.some + min_interval]]
       ELSE limiter' =
                [RecordReturn(limiter, now) EXCEPT !.last_request = Some(now)]
    /\ UNCHANGED <<variant, now, data, file, call, disk, writer, overlay, db>>

\* asyncio.sleep is over: `self.last_request = datetime.now()` and return
WakeUp(c) ==
    /\ limiter.co[c].pc = "sleeping"
    /\ now >= limiter.co[c].wake
    /\ limiter' = [RecordReturn(limiter, now) EXCEPT
                       !.last_request = Some(now),
                       !.co[c] = [pc |-> "idle"]]
    /\ UNCHANGED <<variant, now, data, file, call, disk, writer, overlay, db>>

\* RateLimiter.reset
Reset ==
    /\ limiter.last_request # None
    /\ limiter' = [limiter EXCEPT !.last_request = None,
                                  !.reset_since = TRUE]
    /\ UNCHANGED <<variant, now, data, file, call, disk, writer, overlay, db>>

NextLimiter ==
    \/ Tick
    \/ \E c \in Coroutines : WaitIfNeeded(c)
    \/ \E c \in Coroutines : WakeUp(c)
    \/ Reset

SpecLimiter == Init /\ [][NextLimiter]_vars

(* ----------------------------- Storage --------------------------------- *)

\* row r comes before row o in ORDER BY scraped_at DESC; among equal
\* scraped_at the order is the one the query plan gives, by ascending or
\* descending id
ComesBefore(r, o, tie) ==
    \/ r.scraped_at > o.scraped_at
    \/ /\ r.scraped_at = o.scraped_at
       /\ IF tie = "asc" THEN r.id < o.id ELSE r.id > o.id

RECURSIVE OrderByScrapedAtDesc(_, _)
OrderByScrapedAtDesc(rows, tie) ==
    IF rows = {} THEN <<>>
    ELSE LET first == CHOOSE r \in rows :
                          \A o \in rows \ {r} : ComesBefore(r, o, tie)
         IN  <<first>> \o OrderByScrapedAtDesc(rows \ {first}, tie)

\* SELECT id FROM scrapes ORDER BY scraped_at ASC LIMIT -1 OFFSET ?
OffsetIds_oldest_first(rows, offset, tie) ==
    LET ordered == OrderByScrapedAtDesc(rows, tie)
        kept == LastK(ordered, offset)
    IN  {r.id : r \in rows} \ {kept[i].id : i \in 1..Len(kept)}

\* SELECT id FROM scrapes ORDER BY scraped_at DESC LIMIT -1 OFFSET ?
OffsetIds(rows, offset, tie) ==
    LET ordered == OrderByScrapedAtDesc(rows, tie)
        rest == DropK(ordered, offset)
    IN  {rest[i].id : i \in 1..Len(rest)}

\* the values a caller passes for an Optional[int] argument
OptionalDays == {None} \cup {Some(n) : n \in 0..1}

OptionalRows == {None} \cup {Some(n) : n \in 0..(MaxRows + 1)}

\* the rows of a table after prune's two DELETE statements for one argument
PrunedBy(d, ids) ==
    [d EXCEPT !.components = {c \in @ : c.scrape_id \notin ids},
              !.scrapes = {r \in @ : r.id \notin ids}]

\* Storage.prune: first the rows older than the retention, then the rows
\* beyond the newest max_rows, components before scrapes each time
prune(d, retention_days, max_rows, nw, tie) ==
    LET expired == IF retention_days = None THEN {}
                   ELSE {r.id : r \in {x \in d.scrapes :
                                x.scraped_at < nw - retention_days.some}}
        d1 == PrunedBy(d, expired)
        beyond == IF max_rows = None THEN {}
                  ELSE OffsetIds(d1.scrapes, max_rows.some, tie)
    IN  PrunedBy(d1, beyond)

\* insert_scrape_result: one row in scrapes with the caller's scraped_at,
\* one row in components for each component of the payload
InsertScrapeResult ==
    /\ call = NoCall
    /\ db.lastrowid < MaxRows
    /\ \E scraped_at \in 0..MaxNow, components \in 0..1 :
           LET scrape_id == db.lastrowid + 1
           IN  /\ db' = [scrapes |-> db.scrapes \cup
                             {[id |-> scrape_id, scraped_at |-> scraped_at]},
                         components |-> db.components \cup
                             {[scrape_id |-> scrape_id, component_id |-> i] :
                                 i \in 1..components},
                         lastrowid |-> scrape_id]
               /\ call' = [fn |-> "insert_scrape_result",
                           out |-> Returned(scrape_id)]
    /\ UNCHANGED <<variant, now, data, file, disk, writer, overlay, limiter>>

Prune ==
    /\ call = NoCall
    /\ \E retention_days \in OptionalDays, max_rows \in OptionalRows,
          tie \in {"asc", "desc"} :
           /\ db' = prune(db, retention_days, max_rows, now, tie)
           /\ call' = [fn |-> "prune", retention_days |-> retention_days,
                       max_rows |-> max_rows, before |-> db,
                       out |-> Returned(Cardinality(db.scrapes)
                                        - Cardinality(db'.scrapes))]
    /\ UNCHANGED <<variant, now, data, file, disk, writer, overlay, limiter>>

NextStorage == Tick \/ InsertScrapeResult \/ Prune \/ Return

SpecStorage == Init /\ [][NextStorage]_vars

(* ---------------------------- with_retry ------------------------------- *)

\* Whether scraper/retry_handler.py can be imported.  From line 16 on the
\* file writes every double quote, the docstring's delimiters included, as
\* backslash-quote; outside a string literal that is a syntax error, so
\* compiling the module raises SyntaxError and with_retry is never
\* defined.
retry_handler_compiles == FALSE

\* func, by the outcome of each of its invocations in turn
FuncBehaviours == [1..MaxAttempts -> {"ok", "Exception"}]

\* the on_retry argument: None, a callback that returns, one that raises
OnRetryChoices == {"None", "returns", "raises"}

\* RetryPolicy: the fields other than max_attempts at their defaults
RetryPolicies ==
    {[initial_delay |-> InitialDelay, multiplier |-> Multiplier,
      max_attempts |-> n, max_delay |-> MaxDelay] : n \in 0..MaxAttempts}

\* the loop of with_retry from the state (attempt, delay), `notified` being
\* the calls of on_retry so far.  The result of invocation i is i, its
\* exception is exception i.
\* the exception that invocation i of func raises
ExceptionOf(i) == [type |-> "Exception", invocation |-> i]

RECURSIVE RetryLoop(_, _, _, _, _, _)
RetryLoop(func, policy, on_retry, attempt, delay, notified) ==
    IF attempt >= policy.max_attempts
    THEN [out |-> Returned(None), invocations |-> attempt,
          notified |-> notified]
    ELSE IF func[attempt + 1] = "ok"
    THEN [out |-> Returned(attempt + 1), invocations |-> attempt + 1,
          notified |-> notified]
    ELSE IF attempt + 1 >= policy.max_attempts
    THEN [out |-> Raised(ExceptionOf(attempt + 1)),
          invocations |-> attempt + 1,
          notified |-> notified]
    ELSE RetryLoop(func, policy, on_retry, attempt + 1,
                   Min(delay * policy.multiplier, policy.max_delay),
                   IF on_retry = "None" THEN notified
                   ELSE Append(notified, <<attempt + 1, delay>>))

\* with_retry(func, policy, on_retry) as the importing program gets it
with_retry(func, policy, on_retry) ==
    IF retry_handler_compiles
    THEN RetryLoop(func, policy, on_retry, 0, policy.initial_delay, <<>>)
    ELSE [out |-> Raised([type |-> "SyntaxError"]), invocations |-> 0,
          notified |-> <<>>]

CallWithRetry ==
    /\ call = NoCall
    /\ \E func \in FuncBehaviours, policy \in RetryPolicies,
          on_retry \in OnRetryChoices :
           call' = [fn |-> "with_retry", func |-> func, policy |-> policy,
                    on_retry |-> on_retry] @@
                   with_retry(func, policy, on_retry)
    /\ UNCHANGED <<periph, variant, now, data, file>>

NextRetry == Tick \/ CallWithRetry \/ Return

SpecRetry == Init /\ [][NextRetry]_vars

(* ------------------------- the browser session ------------------------- *)

\* driver.get(USAGE_URL) in each attempt: it returns, or raises
\* WebDriverException
GetBehaviours == [1..MaxAttempts -> {"ok", "WebDriverException"}]

\* what the driver shows during the wait of each attempt: a page that
\* is_challenge_page rejects until the timeout, or one it accepts (for a
\* driver whose page_source raises, is_challenge_page returns False too)
PageBehaviours == [1..MaxAttempts -> {"challenge", "usable"}]

\* the loop of navigate_to_usage after `attempt` attempts.  A
\* WebDriverException from driver.get is logged and the wait loop runs all
\* the same; the first poll that is_challenge_page accepts returns True.
RECURSIVE NavigateLoop(_, _, _, _, _)
NavigateLoop(gets, pages, timeout, max_attempts, attempt) ==
    IF attempt >= max_attempts
    THEN [out |-> Returned(FALSE), attempts |-> attempt]
    ELSE IF timeout > 0 /\ pages[attempt + 1] = "usable"
    THEN [out |-> Returned(TRUE), attempts |-> attempt + 1]
    ELSE IF attempt + 1 < max_attempts
    THEN NavigateLoop(gets, pages, timeout, max_attempts, attempt + 1)
    ELSE [out |-> Returned(FALSE), attempts |-> attempt + 1]

navigate_to_usage(gets, pages, timeout, max_attempts) ==
    NavigateLoop(gets, pages, timeout, max_attempts, 0)

CallNavigateToUsage ==
    /\ call = NoCall
    /\ \E gets \in GetBehaviours, pages \in PageBehaviours,
          timeout \in 0..1, max_attempts \in 0..MaxAttempts :
           call' = [fn |-> "navigate_to_usage", gets |-> gets,
                    pages |-> pages, timeout |-> timeout,
                    max_attempts |-> max_attempts] @@
                   navigate_to_usage(gets, pages, timeout, max_attempts)
    /\ UNCHANGED <<periph, variant, now, data, file>>

\* What ensure_authenticated observes each time it looks: whether a
\* session cookie is set, whether the content shows a login prompt,
\* whether it shows usage numbers ("d / d").
Observations == [cookie : BOOLEAN, login_prompt : BOOLEAN, numbers : BOOLEAN]

\* the observations of the polls; the login prompt is not looked for there
PollObservations == {o \in Observations : ~o.login_prompt}

\* the polling loop of ensure_authenticated before poll number `poll`
RECURSIVE PollLoop(_, _, _)
PollLoop(polls, poll, stable_count) ==
    IF poll > Len(polls)
    THEN [verdict |-> "timeout", looked |-> Len(polls) + 1]
    ELSE IF polls[poll].cookie
    THEN [verdict |-> "cookie", looked |-> poll + 1]
    ELSE IF polls[poll].numbers
    THEN IF stable_count + 1 >= 2
         THEN [verdict |-> "content", looked |-> poll + 1]
         ELSE PollLoop(polls, poll + 1, stable_count + 1)
    ELSE PollLoop(polls, poll + 1, 0)

\* ensure_authenticated: the cookie check, the check of the content as it
\* is at the call, then the polls.  `looked` counts the times the page was
\* looked at.
ensure_authenticated(first, polls) ==
    IF first.cookie THEN [verdict |-> "cookie", looked |-> 1]
    ELSE IF ~first.login_prompt /\ first.numbers
    THEN [verdict |-> "content", looked |-> 1]
    ELSE PollLoop(polls, 1, 0)

CallEnsureAuthenticated ==
    /\ call = NoCall
    /\ \E first \in Observations, polls \in [1..MaxPolls -> PollObservations] :
           call' = [fn |-> "ensure_authenticated", first |-> first,
                    polls |-> polls] @@
                   ensure_authenticated(first, polls)
    /\ UNCHANGED <<periph, variant, now, data, file>>

NextBrowser == Tick \/ CallNavigateToUsage \/ CallEnsureAuthenticated \/ Return

SpecBrowser == Init /\ [][NextBrowser]_vars

(* ------------- properties of the projection builder (SpecDoc) ---------- *)

IsProjectionsCall == call.fn = "calculate_projections"

\* the builder returned a mapping of projections
ProjectionsReturned ==
    IsProjectionsCall /\ IsReturned(call.out) /\ call.out.ret # None

\* every cap is in the cap-state mapping with its percentage and a
\* well-formed reset timestamp
HasRequiredFields(d) ==
    /\ DOMAIN d.metrics = Caps
    /\ \A c \in Caps :
          /\ "percentage" \in DOMAIN d.metrics[c]
          /\ "resetTime" \in DOMAIN d.metrics[c]
          /\ d.metrics[c]["resetTime"].kind = "iso"

\* C1 (as claimed): the builder returns None for every history of fewer
\* than 2 samples, and returns a projection mapping for every history of at
\* least 2 samples whose cap-state mapping carries the required fields.
C1_ProjectionPresentIffEnoughHistory ==
    IsProjectionsCall =>
        /\ Len(data.historicalData) < 2 => call.out = Returned(None)
        /\ (Len(data.historicalData) >= 2 /\ HasRequiredFields(data)) =>
               ProjectionsReturned

\* C2 (as claimed): with at least 2 samples, a cap whose state has no
\* resetTime still has a projection in the returned mapping, with its rate
\* per hour, smoothed value and confidence.
C2_CapWithoutResetTimeProjected ==
    (/\ IsProjectionsCall
     /\ IsReturned(call.out)
     /\ Len(data.historicalData) >= 2) =>
        \A c \in DOMAIN data.metrics :
            "resetTime" \notin DOMAIN data.metrics[c] =>
                /\ call.out.ret # None
                /\ c \in DOMAIN call.out.ret
                /\ {"averageRatePerHour", "sma", "confidence"}
                       \subseteq DOMAIN call.out.ret[c]

\* the cap's state carries a resetTime
ResetTimeKnown(d, c) ==
    c \in DOMAIN d.metrics /\ "resetTime" \in DOMAIN d.metrics[c]

\* C3 (as claimed): in every cap's projection projectedUsageAtReset is
\* present exactly when the cap's resetTime is known, and then equals
\* calculate_projection_at_time(current, rate, resetTime).
C3_ProjectedAtResetIffResetKnown ==
    ProjectionsReturned =>
        \A c \in DOMAIN call.out.ret :
            /\ ("projectedUsageAtReset" \in DOMAIN call.out.ret[c])
                   <=> ResetTimeKnown(data, c)
            /\ "projectedUsageAtReset" \in DOMAIN call.out.ret[c] =>
                   call.out.ret[c]["projectedUsageAtReset"] * Tenth
                       = ProjectedAtReset(data, c, call.at, variant).ret

\* C9 (as claimed): with the current value within 0-100, the
\* projectedUsageAtReset of every projection lies within 0-100.
C9_ProjectedAtResetWithinRange ==
    ProjectionsReturned =>
        \A c \in DOMAIN call.out.ret :
            (/\ "projectedUsageAtReset" \in DOMAIN call.out.ret[c]
             /\ data.metrics[c]["percentage"] >= 0
             /\ data.metrics[c]["percentage"] <= DefaultCapLimit * Pct) =>
                /\ call.out.ret[c]["projectedUsageAtReset"] >= 0
                /\ call.out.ret[c]["projectedUsageAtReset"] <= DefaultCapLimit * 10

(* ---------------- properties of the pure functions (SpecPure) ---------- *)

IsEstimateCall == call.fn = "estimate_time_to_cap"

IsProjectionAtTimeCall == call.fn = "calculate_projection_at_time"

IsTrendCall == call.fn = "calculate_trend"

\* C4: estimate_time_to_cap returns None exactly when rate_per_hour <= 0 or
\* current_usage >= cap_limit, and an instant for every other input.
C4_EstimateAbsentExactly ==
    IsEstimateCall =>
        /\ (call.out = None) <=>
               (call.rate_per_hour <= 0 \/ call.current_usage >= call.cap_limit)
        /\ (call.out # None) => call.out.kind = "instant"

C4_Witness ==
    /\ IsEstimateCall
    /\ call.rate_per_hour > 0
    /\ call.current_usage < call.cap_limit
    /\ call.out.kind = "instant"

\* C5: an instant returned by estimate_time_to_cap lies
\* (cap_limit - current_usage) / rate_per_hour hours after the clock reading
\* of the call, and that offset is strictly positive: never now, never the past.
C5_EstimateInstant ==
    (IsEstimateCall /\ call.out # None) =>
        /\ call.out.base = call.at
        /\ call.out.num = call.cap_limit - call.current_usage
        /\ call.out.den = call.rate_per_hour * Centi
        /\ call.out.num > 0
        /\ call.out.den > 0

C5_Witness ==
    /\ IsEstimateCall
    /\ call.at > 0
    /\ call.out # None
    /\ call.out.num = 50 * Pct
    /\ call.out.den = 1000 * Centi

\* the target parses and carries the timezone form of the clock, so that
\* hours_until_target is computed
Resolves(target_time, v) ==
    target_time.kind = "iso" /\ target_time.form = NowForm(v)

\* current + rate x hours until the target, in units
Extrapolated(current, rate, ticks) == current + rate * Fine * ticks

\* C6: for a target at or after the clock reading the call returns
\* min(current + rate x hoursUntil(target), cap_limit), which never
\* exceeds cap_limit and is not clamped from below to current.
C6_ProjectionClampedAbove ==
    (/\ IsProjectionAtTimeCall
     /\ Resolves(call.target_time, variant)
     /\ call.target_time.t >= call.at) =>
        /\ IsReturned(call.out)
        /\ call.out.ret = Min(Extrapolated(call.current_usage, call.rate_per_hour,
                                           call.target_time.t - call.at),
                              call.cap_limit)
        /\ call.out.ret <= call.cap_limit

\* a negative rate projects below the current value
C6_Witness ==
    /\ IsProjectionAtTimeCall
    /\ Resolves(call.target_time, variant)
    /\ call.target_time.t > call.at
    /\ call.rate_per_hour < 0
    /\ IsReturned(call.out)
    /\ call.out.ret < call.current_usage
    /\ call.current_usage <= call.cap_limit

\* C7: for a target strictly before the clock reading the call returns
\* current_usage unchanged, whatever the rate and cap_limit.
C7_PastTargetUnchanged ==
    (/\ IsProjectionAtTimeCall
     /\ Resolves(call.target_time, variant)
     /\ call.target_time.t < call.at) =>
        call.out = Returned(call.current_usage)

C7_Witness ==
    /\ IsProjectionAtTimeCall
    /\ Resolves(call.target_time, variant)
    /\ call.target_time.t < call.at
    /\ call.rate_per_hour # 0
    /\ call.current_usage > call.cap_limit
    /\ call.out = Returned(call.current_usage)

\* C8 (as claimed): whenever the target cannot be parsed or resolved to an
\* hours-until value (unparseable string, non-string value, timezone form
\* that cannot be compared with the clock) the call returns current_usage
\* and raises nothing.
C8_TargetErrorNeverPropagates ==
    (IsProjectionAtTimeCall /\ ~Resolves(call.target_time, variant)) =>
        call.out = Returned(call.current_usage)

\* the values form an arithmetic sequence of common difference ys[2] - ys[1]
IsArithmetic(ys) ==
    /\ Len(ys) >= 2
    /\ \A i \in 2..Len(ys) : ys[i] - ys[i - 1] = ys[2] - ys[1]

Sign(x) == IF x > 0 THEN 1 ELSE IF x < 0 THEN -1 ELSE 0

TrendCallValues == FieldValues(call.historical_data, Field)

\* C10 (as claimed): on an arithmetic sequence of common difference d the
\* rate has the sign of d: positive for d > 0, zero for d = 0, negative for
\* d < 0.
C10_RateHasSignOfDifference ==
    (IsTrendCall /\ IsArithmetic(TrendCallValues)) =>
        Sign(call.out) = Sign(TrendCallValues[2] - TrendCallValues[1])

\* C10 (amended): on an arithmetic sequence of common difference d the rate
\* is 12 x d rounded to 2 decimals: it is exactly zero for d = 0, never of
\* the sign opposite to d, and of the sign of d whenever 12 x |d| is at
\* least one hundredth of a percent per hour; a smaller nonzero d may round
\* to zero.
C10_RateSignUpToRounding ==
    (IsTrendCall /\ IsArithmetic(TrendCallValues)) =>
        LET d == TrendCallValues[2] - TrendCallValues[1]
        IN  /\ d = 0 => call.out = 0
            /\ Sign(call.out) \in {0, Sign(d)}
            /\ SamplesPerHour * Abs(d) >= Centi => Sign(call.out) = Sign(d)

C10_Witness ==
    /\ IsTrendCall
    /\ Len(call.historical_data) = 3
    /\ IsArithmetic(TrendCallValues)
    /\ TrendCallValues[2] - TrendCallValues[1] = -Pct
    /\ call.out = -(SamplesPerHour * 100)

(* ------------------------- TrendEstimator (SpecPure) ------------------- *)

\* the sum of s[lo..hi]
RECURSIVE SumRange(_, _, _)
SumRange(s, lo, hi) == IF lo > hi THEN 0 ELSE s[lo] + SumRange(s, lo + 1, hi)

\* the textbook least-squares slope of ys against x = 0, 1, .., n - 1, as the
\* fraction num/den, with the sums over x in closed form
TextbookSlope(ys) ==
    LET n == Len(ys)
        Sx == (n * (n - 1)) \div 2
        Sxx == ((n - 1) * n * (2 * n - 1)) \div 6
        Sy == SumRange(ys, 1, n)
        Sxy == SumRange([i \in 1..n |-> (i - 1) * ys[i]], 1, n)
    IN  [num |-> n * Sxy - Sx * Sy, den |-> n * Sxx - Sx * Sx]

\* r (an integer count of hundredths) is the fraction num/den (den > 0) of
\* hundredths rounded to the nearest integer, ties to the even one
IsRounding(r, num, den) ==
    /\ 2 * Abs(r * den - num) <= den
    /\ 2 * Abs(r * den - num) = den => r % 2 = 0

\* C11: calculate_trend returns 0.0 for every sequence of fewer than 2
\* points, and for n >= 2 points the least-squares slope
\* (n Sxy - Sx Sy) / (n Sxx - Sx^2) of the values against their 0-based
\* index, times 12 samples per hour, rounded to 2 decimals.
C11_TrendIsOlsSlopePerHour ==
    IsTrendCall =>
        IF Len(call.historical_data) < 2 THEN call.out = 0
        ELSE LET slope == TextbookSlope(TrendCallValues)
             IN  /\ slope.den > 0
                 /\ IsRounding(call.out, 12 * slope.num, slope.den * Centi)

\* three points that are not on a line: 22, 24, 23 percent, slope 0.5
\* percent per sample, 6.00 percent per hour
C11_Witness ==
    /\ IsTrendCall
    /\ TrendCallValues = <<22 * Pct, 24 * Pct, 23 * Pct>>
    /\ call.out = 600

IsSmaCall == call.fn = "calculate_sma"

\* the fraction q is the mean of s[lo..hi]
IsMeanOf(q, s, lo, hi) ==
    /\ q.den > 0
    /\ q.num * (hi - lo + 1) = SumRange(s, lo, hi) * q.den

\* C12: for every non-empty sequence and every window >= 1, calculate_sma
\* returns the arithmetic mean of the last min(window, len) elements; with
\* window >= len that is the mean of the whole sequence.
C12_SmaIsTrailingMean ==
    (IsSmaCall /\ Len(call.data_points) >= 1 /\ call.window >= 1) =>
        LET n == Len(call.data_points)
            k == Min(call.window, n)
        IN  /\ IsReturned(call.out)
            /\ IsMeanOf(call.out.ret, call.data_points, n - k + 1, n)
            /\ call.window >= n => IsMeanOf(call.out.ret, call.data_points, 1, n)

\* a window shorter than the sequence: the first element is left out
C12_Witness ==
    /\ IsSmaCall
    /\ call.data_points = <<45 * Pct, 10 * Pct, 20 * Pct>>
    /\ call.window = 2
    /\ call.out = Returned([num |-> 30 * Pct, den |-> 2])

\* C13 (as claimed): calculate_sma([], w) returns 0.0 for every integer
\* window w, positive, zero or negative.
C13_SmaOfEmptyIsZero ==
    (IsSmaCall /\ call.data_points = <<>>) =>
        /\ IsReturned(call.out)
        /\ call.out.ret.num = 0

\* C14 (as claimed): for every finite input sequence and every integer
\* window, calculate_sma and calculate_trend each return a number and
\* raise nothing.
C14_TrendEstimatorNeverRaises ==
    /\ IsSmaCall => IsReturned(call.out)
    /\ IsTrendCall => call.out \in Int

IsConfidenceCall == call.fn = "determine_confidence"

IsProjectionsOfCall == call.fn = "calculate_projections_of"

\* the tier the thresholds assign to n samples
TierOf(n) ==
    CHOOSE t \in {"high", "medium", "low"} :
        /\ t = "high" <=> n >= 24
        /\ t = "medium" <=> (12 <= n /\ n <= 23)
        /\ t = "low" <=> n <= 11

\* C15: for every sample count n >= 0 determine_confidence returns high iff
\* n >= 24, medium iff 12 <= n <= 23 and low iff n <= 11; the confidence of
\* every projection the builder returns is this tier of the history length.
C15_ConfidenceTierOfHistoryLength ==
    /\ IsConfidenceCall =>
           /\ call.out = "high" <=> call.data_point_count >= 24
           /\ call.out = "medium" <=>
                  (12 <= call.data_point_count /\ call.data_point_count <= 23)
           /\ call.out = "low" <=> call.data_point_count <= 11
    /\ (IsProjectionsOfCall /\ IsReturned(call.out) /\ call.out.ret # None) =>
           \A c \in DOMAIN call.out.ret :
               call.out.ret[c]["confidence"] = TierOf(Len(call.data.historicalData))

\* a history of exactly 24 samples is projected with high confidence
C15_Witness ==
    /\ IsProjectionsOfCall
    /\ Len(call.data.historicalData) = 24
    /\ IsReturned(call.out)
    /\ call.out.ret # None
    /\ "weekCap" \in DOMAIN call.out.ret
    /\ call.out.ret["weekCap"]["confidence"] = "high"

(* ---------------- the projection records (SpecDoc) --------------------- *)

\* C16: in every projection the builder returns, averageRatePerDay is
\* present exactly for the weekly and the weekly-Opus cap and absent for
\* the 4-hour cap; when present it is averageRatePerHour x 24.
C16_DailyRateOnlyForWeeklyCaps ==
    ProjectionsReturned =>
        \A c \in DOMAIN call.out.ret :
            /\ ("averageRatePerDay" \in DOMAIN call.out.ret[c])
                   <=> c \in {"weekCap", "opusWeekCap"}
            /\ "averageRatePerDay" \in DOMAIN call.out.ret[c] =>
                   call.out.ret[c]["averageRatePerDay"]
                       = 24 * call.out.ret[c]["averageRatePerHour"]

\* a mapping with the 4-hour cap and a weekly cap of non-zero rate
C16_Witness ==
    /\ ProjectionsReturned
    /\ {"fourHourCap", "weekCap"} \subseteq DOMAIN call.out.ret
    /\ "averageRatePerDay" \notin DOMAIN call.out.ret["fourHourCap"]
    /\ call.out.ret["fourHourCap"]["averageRatePerHour"] # 0
    /\ call.out.ret["weekCap"]["averageRatePerHour"] = -1200
    /\ call.out.ret["weekCap"]["averageRatePerDay"] = -28800

IsIntegrateCall == call.fn = "integrate_projections_into_data"

\* the fields of a cap the scraper wrote
ScrapedFields == {"used", "limit", "percentage"}

\* C17: integrate_projections_into_data leaves historicalData (length,
\* order and every sample), lastUpdated and each cap's used, limit and
\* percentage as they were, and adds no cap to metrics.
C17_IntegrateOnlyAttaches ==
    IsIntegrateCall =>
        /\ data.historicalData = call.before.historicalData
        /\ Get(data, "lastUpdated", None) = Get(call.before, "lastUpdated", None)
        /\ DOMAIN data.metrics = DOMAIN call.before.metrics
        /\ \A c \in DOMAIN call.before.metrics :
               \A f \in ScrapedFields :
                   /\ f \in DOMAIN data.metrics[c] <=> f \in DOMAIN call.before.metrics[c]
                   /\ f \in DOMAIN call.before.metrics[c] =>
                          data.metrics[c][f] = call.before.metrics[c][f]

\* the call attached a projection to the weekly cap of a loaded document
C17_Witness ==
    /\ IsIntegrateCall
    /\ IsReturned(call.out)
    /\ Len(call.before.historicalData) >= 2
    /\ "weekCap" \in DOMAIN data.metrics
    /\ data.metrics["weekCap"] # call.before.metrics["weekCap"]
    /\ data.metrics["weekCap"]["used"] = 28

\* the keys a projection record can hold
ProjectionKeys ==
    {"averageRatePerHour", "projectedUsageAtReset", "estimatedTimeToLimit",
     "confidence", "sma", "averageRatePerDay"}

Absent == [kind |-> "absent"]

\* the projection annex a cap carries under build v: the record under
\* 'projections' (HEAD), the projection fields of the cap (incoming side)
AnnexOf(cap_data, v) ==
    IF v = "HEAD"
    THEN Get(cap_data, "projections", Absent)
    ELSE IF DOMAIN cap_data \cap ProjectionKeys = {} THEN Absent
         ELSE [k \in DOMAIN cap_data \cap ProjectionKeys |-> cap_data[k]]

\* the projection the builder computes for cap c of document d at tick nw
FreshProjection(d, c, nw, v) ==
    LET projections == BuildProjections(d, nw, v)
    IN  IF IsReturned(projections) /\ projections.ret # None
                                  /\ c \in DOMAIN projections.ret
        THEN projections.ret[c]
        ELSE Absent

\* C18 (as claimed): after every projection cycle the annex of every cap is
\* exactly the freshly computed projection, no field of an earlier annex
\* surviving, and with fewer than 2 samples no cap carries an annex, even
\* if the incoming document carried one.
C18_AnnexIsFreshOrAbsent ==
    (IsIntegrateCall /\ IsReturned(call.out)) =>
        \A c \in DOMAIN data.metrics :
            /\ AnnexOf(data.metrics[c], variant)
                   = FreshProjection(call.before, c, call.at, variant)
            /\ Len(data.historicalData) < 2 =>
                   AnnexOf(data.metrics[c], variant) = Absent

(* ---------------- the retained history (SpecCycle) --------------------- *)

IsTrimCall == call.fn = "trim_historical_data"

\* a polling cycle or a manual update that replaced the data file
IsCycleWrite ==
    /\ call.fn \in {"scrape_once", "manual_update"}
    /\ call.saved

\* a polling cycle or a manual update that ended without a write
IsCycleWithoutWrite ==
    /\ call.fn \in {"scrape_once", "manual_update"}
    /\ ~call.saved

\* C19: after any sequence of polling cycles and manual updates the data
\* file never holds more than the fixed maximum of samples, and
\* trim_historical_data returns exactly that many for any longer input.
C19_HistoryNeverExceedsMaximum ==
    /\ file # NoFile => Len(file.historicalData) <= MAX_HISTORICAL_POINTS
    /\ (/\ IsTrimCall
        /\ "historicalData" \in DOMAIN call.data
        /\ Len(call.data.historicalData) > MAX_HISTORICAL_POINTS) =>
           Len(call.out.historicalData) = MAX_HISTORICAL_POINTS

\* a cycle wrote over a file that was already full
C19_Witness ==
    /\ IsCycleWrite
    /\ call.before # NoFile
    /\ Len(call.before.historicalData) = MAX_HISTORICAL_POINTS
    /\ Len(file.historicalData) = MAX_HISTORICAL_POINTS
    /\ file.historicalData # call.before.historicalData

\* C20: every cycle that writes appends exactly one sample, its own, at the
\* end of the history it found, drops only the oldest samples beyond the
\* maximum and keeps the others in their order; a cycle that does not
\* write leaves the history as it was, and merge_with_existing hands the
\* history of the file on unchanged.  From the empty history the file thus
\* holds the most recent min(n, maximum) of the n samples appended.
C20_HistoryIsFifo ==
    /\ IsCycleWrite =>
           LET old == ExistingHistory(call.before)
               new == file.historicalData
               dropped == Len(old) + 1 - Len(new)
           IN  /\ Len(new) = Min(Len(old) + 1, MAX_HISTORICAL_POINTS)
               /\ new[Len(new)]["timestamp"] = call.at
               /\ new[Len(new)]["fourHourUsed"]
                      = file.metrics["fourHourCap"]["used"] * Pct
               /\ \A i \in 1..(Len(new) - 1) : new[i] = old[i + dropped]
    /\ IsCycleWithoutWrite => file = call.before
    /\ (call.fn = "merge_with_existing" /\ file # NoFile) =>
           call.out.historicalData = file.historicalData

\* the oldest sample of a full history was dropped, the later ones moved up
C20_Witness ==
    /\ IsCycleWrite
    /\ call.fn = "scrape_once"
    /\ call.before # NoFile
    /\ Len(call.before.historicalData) = MAX_HISTORICAL_POINTS
    /\ call.before.historicalData[1]["timestamp"] < call.before.historicalData[2]["timestamp"]
    /\ file.historicalData[1] = call.before.historicalData[2]
    /\ file.historicalData[Len(file.historicalData)]["timestamp"] = call.at

\* C21 (as claimed): the sample a polling cycle or manual update appends
\* records, for each cap, that cap's usage percentage on the 0-100 scale,
\* the quantity the document carries as the cap's percentage.
C21_SampleRecordsPercentage ==
    IsCycleWrite =>
        LET sample == file.historicalData[Len(file.historicalData)]
        IN  \A c \in Caps :
                sample[cap_mappings[c]] = file.metrics[c]["percentage"]

IsPairCall == call.fn = "calculate_projections_pair"

\* the projection of cap c in the result r of the builder
ProjectionIn(r, c) ==
    IF IsReturned(r) /\ r.ret # None /\ c \in DOMAIN r.ret THEN r.ret[c]
    ELSE Absent

\* the documents have the same number of samples and agree on cap c: its
\* state and its history values
AgreeOnCap(d1, d2, c) ==
    /\ Len(d1.historicalData) = Len(d2.historicalData)
    /\ d1.metrics[c] = d2.metrics[c]
    /\ FieldValues(d1.historicalData, cap_mappings[c])
           = FieldValues(d2.historicalData, cap_mappings[c])

\* C22 (as claimed): two documents with the same number of samples that
\* differ only in another cap's history values or state yield identical
\* projections for this cap.
C22_CapProjectionIndependent ==
    IsPairCall =>
        \A c \in Caps :
            AgreeOnCap(call.data, call.other, c) =>
                ProjectionIn(call.out, c) = ProjectionIn(call.out_other, c)

\* an atomic_write block has ended with an exception raised by its body
IsBodyRaise ==
    /\ writer.pc = "done"
    /\ writer.via = "atomic_write"
    /\ "raised_in" \in DOMAIN writer
    /\ writer.raised_in = "body"

\* C23 (as claimed): if the body of an atomic_write block raises, the target
\* is left as it was before the call (missing stays missing, an existing
\* file keeps its content), the temporary file is removed, and the
\* exception propagates to the caller.
C23_BodyRaiseLeavesTargetAndNoTemp ==
    IsBodyRaise =>
        /\ file = writer.before
        /\ disk.temp = NoFile
        /\ IsRaised(writer.out)

\* C24 (as claimed): at every step of a write of the data file, an
\* interruption at any step and every platform branch included, the target
\* holds the complete previous document or the complete new one: it is
\* never partial, and never missing when it existed before.
C24_TargetIsPreviousOrNew ==
    writer # Idle =>
        \/ file = writer.before
        \/ IsComplete(file) /\ file.doc = writer.doc

\* C25 (as claimed): two returns of wait_if_needed on the same limiter, by
\* sequential calls or by concurrently running coroutines, are at least
\* min_interval apart unless reset() was called in between.
C25_ReturnsMinIntervalApart ==
    (Len(limiter.returns) = 2 /\ ~limiter.reset_between) =>
        limiter.returns[2] - limiter.returns[1] >= min_interval

IsPruneMaxRows ==
    /\ call.fn = "prune"
    /\ call.retention_days = None
    /\ call.max_rows # None

\* C26: after prune(max_rows=N) exactly min(N, count) scrapes remain, none
\* when N = 0, each with a scraped_at no smaller than that of any deleted
\* scrape, and no row of components refers to a deleted scrape.
C26_PruneKeepsNewest ==
    IsPruneMaxRows =>
        LET N == call.max_rows.some
            before == call.before.scrapes
            deleted == before \ db.scrapes
        IN  /\ db.scrapes \subseteq before
            /\ Cardinality(db.scrapes) = Min(N, Cardinality(before))
            /\ N = 0 => db.scrapes = {}
            /\ \A k \in db.scrapes, x \in deleted :
                   k.scraped_at >= x.scraped_at
            /\ \A c \in db.components :
                   c.scrape_id \notin {x.id : x \in deleted}

\* C26 witness: a prune that keeps one of three scrapes, two of them with
\* the same scraped_at, and deletes a scrape that had a component.
C26_Witness ==
    /\ IsPruneMaxRows
    /\ call.max_rows = Some(1)
    /\ Cardinality(call.before.scrapes) = 3
    /\ Cardinality({r.scraped_at : r \in call.before.scrapes}) = 2
    /\ Cardinality(db.components) < Cardinality(call.before.components)
    /\ Cardinality(db.scrapes) = 1

IsRetryCall == call.fn = "with_retry"

\* the invocations of func that with_retry is allowed
Allowed == 1..call.policy.max_attempts

\* C27 (as claimed): with_retry invokes func at most max_attempts times,
\* returns the result of the first invocation that succeeds without
\* invoking func again, and re-raises the last exception if and only if
\* all max_attempts invocations raised; an on_retry callback that raises
\* changes none of this.
C27_RetryUntilFirstSuccess ==
    IsRetryCall =>
        /\ call.invocations <= call.policy.max_attempts
        /\ \A i \in Allowed :
               (call.func[i] = "ok" /\ \A j \in 1..(i - 1) : call.func[j] # "ok")
                   => (call.out = Returned(i) /\ call.invocations = i)
        /\ (call.policy.max_attempts > 0
               /\ \A i \in Allowed : call.func[i] = "Exception")
               <=> call.out = Raised(ExceptionOf(call.policy.max_attempts))

IsNavigateCall == call.fn = "navigate_to_usage"

\* C28 (as claimed): navigate_to_usage returns True only if, in the attempt
\* that returns, driver.get(USAGE_URL) completed without raising and the
\* page is not a challenge page; otherwise it returns False after at most
\* max_attempts attempts.
C28_TrueOnlyAfterCleanNavigation ==
    IsNavigateCall =>
        /\ call.attempts <= call.max_attempts
        /\ call.out \in {Returned(TRUE), Returned(FALSE)}
        /\ call.out = Returned(TRUE) =>
               /\ call.gets[call.attempts] = "ok"
               /\ call.pages[call.attempts] = "usable"

IsEnsureAuthenticatedCall == call.fn = "ensure_authenticated"

\* the observations of the call in order, the one at the call first
Looks == <<call.first>> \o call.polls

\* C29 (as claimed): with no session cookie found, ensure_authenticated
\* takes the user as logged in on the basis of page content only after two
\* consecutive looks that both show usage numbers, never after one.
C29_ContentNeedsTwoConsecutivePolls ==
    (IsEnsureAuthenticatedCall /\ call.verdict = "content") =>
        /\ call.looked >= 2
        /\ Looks[call.looked].numbers
        /\ Looks[call.looked - 1].numbers

\* check_and_reload finds the file as it recorded it at its last look
NothingToReload ==
    /\ overlay.pc = "idle"
    /\ Exists(file)
    /\ overlay.last_modified = Some(file.mtime)
    /\ overlay.last_file_size = Some(file.chunks)

\* C30 (as claimed): once the data file has been replaced by a completed
\* write whose content differs from what the overlay last loaded, a later
\* poll of check_and_reload reloads it: the overlay is never left idle with
\* nothing to reload while the file holds a complete document other than
\* the overlay's data.
C30_OverlayCatchesUp ==
    (NothingToReload /\ IsComplete(file)) => overlay.data = Some(file.doc)

====
